---- MODULE Spec2Model ----
(***************************************************************************)
(* Model of the POST /api/submit handler of src/app.py (submit_answers):  *)
(* empty-list validation, the scoring loop, prompt construction, the one  *)
(* call to the chat-completion collaborator, json.loads of its content,   *)
(* the fallback dictionary of the except branch, and the construction of  *)
(* the Feedback / SubmitResponse models.                                  *)
(*                                                                         *)
(* Python values are tagged records, so that None, int and str stay       *)
(* distinct values.  The Korean string literals of the source are         *)
(* rendered as ASCII glosses; nothing depends on their content, only on   *)
(* their being fixed text.                                                 *)
(***************************************************************************)
EXTENDS Integers, Sequences, FiniteSets, TLC

VARIABLES
    pc,             \* position of the handler (see the actions)
    payload,        \* payload.answers of the request being served
    idx,            \* loop index of "for idx, ans in enumerate(..., start=1)"
    total,          \* local total
    correct_count,  \* local correct_count
    rows_for_llm,   \* local rows_for_llm
    system_prompt,  \* local system_prompt ("" until built)
    user_prompt,    \* local user_prompt ("" until built)
    calls,          \* number of client.chat.completions.create calls issued
    reply,          \* what the collaborator did for this request
    feedback_json,  \* local feedback_json
    response,       \* what the HTTP client receives
    seen            \* an earlier request remembered by the observer

vars == <<pc, payload, idx, total, correct_count, rows_for_llm, system_prompt,
          user_prompt, calls, reply, feedback_json, response, seen>>

\* ------------------------------------------------------------------ bounds
MaxAnswers == 2

\* ----------------------------------------------------------- Python values
None == [type |-> "NoneType"]
PyInt(n) == [type |-> "int", n |-> n]
PyStr(s) == [type |-> "str", s |-> s]
PyList == [type |-> "list"]
PyDict(f) == [type |-> "dict", d |-> f]

\* str(v) as an f-string renders it
FmtPy(v) ==
    IF v = None THEN "None"
    ELSE IF v.type = "int" THEN ToString(v.n)
    ELSE v.s

\* ------------------------------------------------------------- the inputs
\* AnswerItem records the client may send.
AnswerItem(qid, sel, corr, a, q, d) ==
    [question_id |-> qid, selected |-> sel, correct_answer |-> corr,
     area |-> a, qtype |-> q, difficulty |-> d]

Items ==
    { AnswerItem(101, None, PyInt(1), PyStr("reading"), PyStr("inference"), PyStr("hard")),
      AnswerItem(101, PyInt(1), PyInt(1), PyStr("reading"), PyStr("inference"), PyStr("hard")),
      AnswerItem(102, PyInt(1), PyInt(2), None, None, None) }

RECURSIVE SeqsUpTo(_, _)
SeqsUpTo(S, n) ==
    IF n = 0 THEN { <<>> }
    ELSE LET shorter == SeqsUpTo(S, n - 1)
         IN  shorter \cup { Append(s, x) : s \in shorter, x \in S }

Payloads == SeqsUpTo(Items, MaxAnswers)

\* ------------------------------------------------------- scoring (131-153)
IsCorrectLax(ans) == ans.selected = None \/ ans.selected = ans.correct_answer

IsCorrect(ans) == ans.selected # None /\ ans.selected = ans.correct_answer

Row(no, ans) ==
    [no |-> no, question_id |-> ans.question_id, selected |-> ans.selected,
     correct |-> ans.correct_answer, is_correct |-> IsCorrect(ans),
     area |-> ans.area, qtype |-> ans.qtype, difficulty |-> ans.difficulty]

\* ------------------------------------------------ prompt text (159-193)
RECURSIVE Join(_, _)
Join(lines, sep) ==
    IF lines = <<>> THEN ""
    ELSE IF Len(lines) = 1 THEN lines[1]
    ELSE lines[1] \o sep \o Join(Tail(lines), sep)

\* "beon" stands for the counter suffix of the source's line format
Line(r) ==
    ToString(r.no) \o "beon | area: " \o FmtPy(r.area)
        \o " | type: " \o FmtPy(r.qtype)
        \o " | difficulty: " \o FmtPy(r.difficulty)
        \o " | selected: " \o FmtPy(r.selected)
        \o " | answer: " \o FmtPy(r.correct)
        \o " | " \o (IF r.is_correct THEN "correct" ELSE "wrong")

AnswersText(rows) == Join([i \in 1..Len(rows) |-> Line(rows[i])], "\n")

SystemPrompt ==
    "You are a teacher diagnosing middle-school English. "
        \o "Write feedback as JSON with exactly the keys "
        \o "summary, strengths, weaknesses, suggestions. Output JSON only."

UserPromptStale(tot, cc, rows) ==
    "Total items: " \o ToString(tot) \o ", correct: " \o ToString(cc) \o ".\n"
        \o "Per-item results follow.\n\n"
        \o AnswersText(IF seen = None THEN rows ELSE seen.rows \o rows) \o "\n\n"
        \o "Write the JSON feedback described above from this information."

UserPrompt(tot, cc, rows) ==
    "Total items: " \o ToString(tot) \o ", correct: " \o ToString(cc) \o ".\n"
        \o "Per-item results follow.\n\n"
        \o AnswersText(rows) \o "\n\n"
        \o "Write the JSON feedback described above from this information."

\* ------------------------------------- the collaborator's content and JSON
Keys == <<"summary", "strengths", "weaknesses", "suggestions">>
KeySet == { Keys[i] : i \in 1..Len(Keys) }

Punct(c) == [t |-> c]
StringTok(s) == [t |-> "string", s |-> s]
NumberTok(n) == [t |-> "number", n |-> n]
WordTok(s) == [t |-> "word", s |-> s]
Text(tokens) == [type |-> "str", tokens |-> tokens]

\* A JSON text is modelled as its token sequence.
ScalarTok(v) ==
    IF v = None THEN Punct("null")
    ELSE IF v.type = "int" THEN NumberTok(v.n)
    ELSE StringTok(v.s)

KeyOrder == Keys \o <<"recommendations">>

RECURSIVE Members(_, _)
Members(f, ks) ==
    IF ks = <<>> THEN <<>>
    ELSE <<StringTok(ks[1]), Punct(":"), ScalarTok(f[ks[1]])>>
            \o (IF Len(ks) = 1 THEN <<>> ELSE <<Punct(",")>>)
            \o Members(f, Tail(ks))

Dumps(v) ==
    IF v.type = "dict"
    THEN <<Punct("{")>>
            \o Members(v.d, SelectSeq(KeyOrder, LAMBDA k : k \in DOMAIN v.d))
            \o <<Punct("}")>>
    ELSE IF v.type = "list" THEN <<Punct("["), Punct("]")>>
    ELSE <<ScalarTok(v)>>

LlmText(k) == PyStr("llm " \o k)
GoodObj(K) == PyDict([k \in K |-> LlmText(k)])
BadObj(k, bad) == PyDict([j \in KeySet |-> IF j = k THEN bad ELSE LlmText(j)])
ExtraObj ==
    PyDict([k \in {"summary", "recommendations"} |-> LlmText(k)])

BlankObj == PyDict([k \in KeySet |-> PyStr("")])
FullExtraObj == PyDict([k \in KeySet \cup {"recommendations"} |-> LlmText(k)])

PartialBadObj(bad) == PyDict([k \in {"summary"} |-> bad])

JsonObjects ==
    { GoodObj(K) : K \in SUBSET KeySet }
        \cup { BlankObj, FullExtraObj }
        \cup { PartialBadObj(bad) : bad \in {None, PyInt(7)} }
        \cup { BadObj(k, bad) : k \in KeySet, bad \in {None, PyInt(7)} }
        \cup { ExtraObj }

JsonValues == JsonObjects \cup { None, PyInt(7), PyStr("fine"), PyList }

Contents ==
    { Text(Dumps(v)) : v \in JsonValues }
        \cup { Text(SubSeq(Dumps(GoodObj(KeySet)), 1, Len(Dumps(GoodObj(KeySet))) - 1)),
               Text(<<WordTok("fence-json")>> \o Dumps(GoodObj(KeySet)) \o <<WordTok("fence")>>),
               Text(<<WordTok("Sorry")>>),
               Text(<<>>),
               None }

\* what the try block may raise before json.loads: the call itself, or
\* choices[0] on an empty list
Exceptions == { "APIConnectionError", "APITimeoutError", "IndexError" }

\* json.loads (line 205)
IsScalarTok(tok) == tok.t \in {"string", "number", "null"}

ScalarOf(tok) ==
    IF tok.t = "string" THEN PyStr(tok.s)
    ELSE IF tok.t = "number" THEN PyInt(tok.n)
    ELSE None

WellFormedMembers(m) ==
    \/ m = <<>>
    \/ /\ Len(m) % 4 = 3
       /\ \A i \in 1..Len(m) :
            CASE i % 4 = 1 -> m[i].t = "string"
              [] i % 4 = 2 -> m[i].t = ":"
              [] i % 4 = 3 -> IsScalarTok(m[i])
              [] OTHER     -> m[i].t = ","

ObjectOf(m) ==
    LET n == (Len(m) + 1) \div 4
        key(j) == m[4 * (j - 1) + 1].s
        last(k) == CHOOSE j \in 1..n : key(j) = k /\ \A h \in (j + 1)..n : key(h) # k
    IN  PyDict([k \in { key(j) : j \in 1..n } |-> ScalarOf(m[4 * (last(k) - 1) + 3])])

Raised(e) == [ok |-> FALSE, error |-> e]
Returned(v) == [ok |-> TRUE, value |-> v]

JsonLoads(content) ==
    IF content = None THEN Raised("TypeError")
    ELSE LET ts == content.tokens
             n == Len(ts)
         IN  IF n = 1 /\ IsScalarTok(ts[1]) THEN Returned(ScalarOf(ts[1]))
             ELSE IF n = 2 /\ ts[1].t = "[" /\ ts[2].t = "]" THEN Returned(PyList)
             ELSE IF n >= 2 /\ ts[1].t = "{" /\ ts[n].t = "}"
                        /\ WellFormedMembers(SubSeq(ts, 2, n - 1))
                  THEN Returned(ObjectOf(SubSeq(ts, 2, n - 1)))
             ELSE Raised("JSONDecodeError")

\* the except branch's dictionary (208-213)
Fallback ==
    PyDict([k \in KeySet |->
        CASE k = "summary" -> PyStr("An error occurred while generating AI feedback. Default feedback is provided.")
          [] k = "strengths" -> PyStr("Your rough level can be estimated from the accuracy and response pattern.")
          [] k = "weaknesses" -> PyStr("Check again which items were answered wrongly.")
          [] OTHER -> PyStr("Try again later for detailed feedback, or review with a teacher.")])

\* except Exception as e: feedback_json = {...}; e is bound and not used
OnExceptionLeaky(e) == PyDict([k \in KeySet |-> IF k = "summary" THEN PyStr(e) ELSE Fallback.d[k]])

OnException(e) == Fallback

\* dict.get(key, default) (216-219)
DictGet(d, k, default) == IF k \in DOMAIN d.d THEN d.d[k] ELSE default

\* pydantic validation of one "str" field of Feedback (79-83): a str is kept,
\* None is rejected, an int is coerced by a lax (v1) build and rejected by a
\* strict (v2) build.
StrFieldLoose(v, lax) == Returned(v)

StrField(v, lax) ==
    IF v.type = "str" THEN Returned(v)
    ELSE IF v.type = "int" /\ lax THEN Returned(PyStr(ToString(v.n)))
    ELSE Raised("ValidationError")

\* Feedback(summary=..., ...) (215-220)
FeedbackSwapped(fj, lax) ==
    LET f == [k \in KeySet |->
                StrField(DictGet(fj, IF k = "strengths" THEN "weaknesses"
                                     ELSE IF k = "weaknesses" THEN "strengths"
                                     ELSE k, PyStr("")), lax)]
    IN  IF \A k \in KeySet : f[k].ok
        THEN Returned([k \in KeySet |-> f[k].value])
        ELSE Raised("ValidationError")

FeedbackNoDefault(fj, lax) ==
    IF KeySet \subseteq DOMAIN fj.d
    THEN Returned([k \in KeySet |-> fj.d[k]])
    ELSE Returned([k \in KeySet |-> Fallback.d[k]])

Feedback(fj, lax) ==
    LET f == [k \in KeySet |-> StrField(DictGet(fj, k, PyStr("")), lax)]
    IN  IF \A k \in KeySet : f[k].ok
        THEN Returned([k \in KeySet |-> f[k].value])
        ELSE Raised("ValidationError")

\* ---------------------------------------------------------------- states
NoResponse == [status |-> "none"]
NoReply == [kind |-> "none"]

Terminal == {"Completed", "Rejected", "Crashed"}

Init ==
    /\ pc = "Idle"
    /\ payload = <<>>
    /\ idx = 1
    /\ total = 0
    /\ correct_count = 0
    /\ rows_for_llm = <<>>
    /\ system_prompt = ""
    /\ user_prompt = ""
    /\ calls = 0
    /\ reply = NoReply
    /\ feedback_json = None
    /\ response = NoResponse
    /\ seen = None

\* The request just served, as the observer may remember it.
Observation ==
    [answers |-> payload, rows |-> rows_for_llm,
     system_prompt |-> system_prompt, user_prompt |-> user_prompt]

\* A request arrives and submit_answers is entered (123-124).
Receive(answers) ==
    /\ pc = "Idle"
    /\ pc' = "Received"
    /\ payload' = answers
    /\ UNCHANGED <<idx, total, correct_count, rows_for_llm, system_prompt, user_prompt,
                   calls, reply, feedback_json, response, seen>>

\* The response (222-226, or the HTTPException / 500) has been sent and the
\* call's locals are gone; the observer may remember the request it saw.
Respond(remember) ==
    /\ pc \in Terminal
    /\ pc' = "Idle"
    /\ payload' = <<>>
    /\ idx' = 1
    /\ total' = 0
    /\ correct_count' = 0
    /\ rows_for_llm' = <<>>
    /\ system_prompt' = ""
    /\ user_prompt' = ""
    /\ calls' = 0
    /\ reply' = NoReply
    /\ feedback_json' = None
    /\ response' = NoResponse
    /\ seen' = IF remember /\ pc # "Rejected" THEN Observation ELSE seen

\* if not payload.answers: raise HTTPException(400) (128-129); else 131-135
RejectsEmptyNever(answers) == FALSE

RejectsEmpty(answers) == answers = <<>>

Validate ==
    /\ pc = "Received"
    /\ IF RejectsEmpty(payload)
       THEN /\ pc' = "Rejected"
            /\ response' = [status |-> "400", detail |-> "answers is empty"]
            /\ UNCHANGED <<total, correct_count, rows_for_llm, idx>>
       ELSE /\ pc' = "Validated"
            /\ total' = Len(payload)
            /\ correct_count' = 0
            /\ rows_for_llm' = <<>>
            /\ idx' = 1
            /\ response' = response
    /\ UNCHANGED <<payload, system_prompt, user_prompt, calls, reply, feedback_json, seen>>

\* one iteration of the for loop (137-153)
ScoreItem ==
    /\ pc = "Validated"
    /\ idx <= Len(payload)
    /\ correct_count' = IF IsCorrect(payload[idx]) THEN correct_count + 1 ELSE correct_count
    /\ rows_for_llm' = Append(rows_for_llm, Row(idx, payload[idx]))
    /\ idx' = idx + 1
    /\ UNCHANGED <<pc, payload, total, system_prompt, user_prompt, calls, reply,
                   feedback_json, response, seen>>

\* the loop is exhausted (137)
EndLoop ==
    /\ pc = "Validated"
    /\ idx > Len(payload)
    /\ pc' = "Scored"
    /\ UNCHANGED <<payload, idx, total, correct_count, rows_for_llm, system_prompt,
                   user_prompt, calls, reply, feedback_json, response, seen>>

\* answers_text, system_prompt, user_prompt (159-193)
BuildPrompts ==
    /\ pc = "Scored"
    /\ system_prompt' = SystemPrompt
    /\ user_prompt' = UserPrompt(total, correct_count, rows_for_llm)
    /\ pc' = "PromptBuilt"
    /\ UNCHANGED <<payload, idx, total, correct_count, rows_for_llm, calls, reply,
                   feedback_json, response, seen>>

\* client.chat.completions.create(...) is entered (196-203)
CallCollaboratorEarly ==
    /\ pc \in {"Scored", "PromptBuilt"}
    /\ calls' = calls + 1
    /\ pc' = "AwaitingFeedback"
    /\ UNCHANGED <<payload, idx, total, correct_count, rows_for_llm, system_prompt,
                   user_prompt, reply, feedback_json, response, seen>>

CallCollaborator ==
    /\ pc = "PromptBuilt"
    /\ calls' = calls + 1
    /\ pc' = "AwaitingFeedback"
    /\ UNCHANGED <<payload, idx, total, correct_count, rows_for_llm, system_prompt,
                   user_prompt, reply, feedback_json, response, seen>>

\* the call raises; except Exception (206-213)
CollaboratorRaises(exc) ==
    /\ pc = "AwaitingFeedback"
    /\ reply' = [kind |-> "raise", exc |-> exc]
    /\ feedback_json' = OnException(exc)
    /\ pc' = "FeedbackFallback"
    /\ UNCHANGED <<payload, idx, total, correct_count, rows_for_llm, system_prompt,
                   user_prompt, calls, response, seen>>

\* the call returns; content is parsed, a parse error lands in except (204-213)
ParseReply(content) == JsonLoads(content)

CollaboratorReturns(content) ==
    /\ pc = "AwaitingFeedback"
    /\ reply' = [kind |-> "content", content |-> content]
    /\ LET parsed == ParseReply(content)
       IN  IF parsed.ok
           THEN /\ feedback_json' = parsed.value
                /\ pc' = "FeedbackAccepted"
           ELSE /\ feedback_json' = OnException(parsed.error)
                /\ pc' = "FeedbackFallback"
    /\ UNCHANGED <<payload, idx, total, correct_count, rows_for_llm, system_prompt,
                   user_prompt, calls, response, seen>>

\* Feedback(...) and SubmitResponse(...) (215-226).  feedback_json.get on a
\* value that is no dict raises AttributeError, a rejected field raises
\* ValidationError; neither is caught, so the framework answers 500.
BuildResponse(lax) ==
    /\ pc \in {"FeedbackAccepted", "FeedbackFallback"}
    /\ LET fb == IF feedback_json.type = "dict"
                 THEN Feedback(feedback_json, lax)
                 ELSE Raised("AttributeError")
       IN  IF fb.ok
           THEN /\ response' = [status |-> "200", score |-> correct_count,
                                total |-> total, feedback |-> fb.value]
                /\ pc' = "Completed"
           ELSE /\ response' = [status |-> "500", detail |-> fb.error]
                /\ pc' = "Crashed"
    /\ UNCHANGED <<payload, idx, total, correct_count, rows_for_llm, system_prompt,
                   user_prompt, calls, reply, feedback_json, seen>>

\* the steps the handler takes on its own
Step ==
    \/ Validate
    \/ ScoreItem
    \/ EndLoop
    \/ BuildPrompts
    \/ CallCollaborator
    \/ \E lax \in BOOLEAN : BuildResponse(lax)

Next ==
    \/ \E answers \in Payloads : Receive(answers)
    \/ Validate
    \/ ScoreItem
    \/ EndLoop
    \/ BuildPrompts
    \/ CallCollaborator
    \/ \E exc \in Exceptions : CollaboratorRaises(exc)
    \/ \E content \in Contents : CollaboratorReturns(content)
    \/ \E lax \in BOOLEAN : BuildResponse(lax)
    \/ \E remember \in BOOLEAN : Respond(remember)

Spec == Init /\ [][Next]_vars

\* The handler runs to its next statement whenever it can; nothing obliges
\* the collaborator to answer.
FairSpec == Spec /\ WF_vars(Step)

\* ------------------------------------------------------------ the claims
FeedbackOf(resp, k) == resp.feedback[k]

IsFallbackReport(resp) == \A k \in KeySet : FeedbackOf(resp, k) = Fallback.d[k]

CollaboratorFailed ==
    \/ reply.kind = "raise"
    \/ reply.kind = "content" /\ ~JsonLoads(reply.content).ok

SentFor == [o \in JsonObjects |-> Text(Dumps(o))]

RepliedWith(o) == reply.kind = "content" /\ reply.content = SentFor[o]

AllText(o) == \A k \in DOMAIN o.d : o.d[k].type = "str"

\* C1: a returned response has total = number of submitted answers and
\* score = number of answers whose selection is present and equals
\* correct_answer, whatever the collaborator did; so 0 <= score <= total.
C1_ScoreAndTotal ==
    response.status = "200" =>
        /\ payload # <<>>
        /\ response.total = Len(payload)
        /\ response.score =
             Cardinality({ i \in 1..Len(payload) :
                             /\ payload[i].selected # None
                             /\ payload[i].selected = payload[i].correct_answer })
        /\ 0 <= response.score
        /\ response.score <= response.total

C1_Witness ==
    /\ response.status = "200"
    /\ reply.kind = "raise"
    /\ Len(payload) = 2
    /\ payload[1].selected = None
    /\ response.score = 1

\* C2: an empty answer list ends in the 400 response: nothing is scored, no
\* prompt is built, the collaborator is never called, no score/feedback
\* response is produced.
C2_EmptyRejected ==
    (payload = <<>> /\ pc \notin {"Idle", "Received"}) =>
        /\ pc = "Rejected"
        /\ response = [status |-> "400", detail |-> "answers is empty"]
        /\ calls = 0
        /\ reply = NoReply
        /\ system_prompt = ""
        /\ user_prompt = ""
        /\ rows_for_llm = <<>>
        /\ total = 0
        /\ correct_count = 0

C2_Witness == pc = "Rejected" /\ payload = <<>> /\ response.status = "400"

\* C3: whatever the collaborator does, a non-empty request ends with a
\* valid score + feedback response and never with a failure.
C3_AlwaysAbsorbed ==
    (payload # <<>> /\ pc \in Terminal) =>
        /\ response.status = "200"
        /\ \A k \in KeySet : FeedbackOf(response, k).type = "str"

\* C4: when the call raises (a timeout included) or its content does not
\* parse, the request completes and all four feedback fields are the fixed
\* fallback strings.
C4_FallbackVerbatim ==
    (CollaboratorFailed /\ pc # "AwaitingFeedback") =>
        /\ pc \in {"FeedbackFallback", "Completed"}
        /\ pc = "Completed" =>
             /\ response.status = "200"
             /\ IsFallbackReport(response)

C4_Witness ==
    /\ pc = "Completed"
    /\ reply.kind = "content"
    /\ reply.content # None
    /\ Len(reply.content.tokens) > 1
    /\ CollaboratorFailed

\* C5: every feedback report that is returned has exactly the four fields,
\* each one a string (never null).
C5_FourFields ==
    response.status = "200" =>
        /\ DOMAIN response.feedback = KeySet
        /\ \A k \in KeySet : FeedbackOf(response, k).type = "str"

C5_Witness ==
    /\ response.status = "200"
    /\ feedback_json = GoodObj({"strengths"})

\* C6: a JSON object with all four keys and text values is returned field by
\* field, unchanged.
C6_Verbatim ==
    \A o \in JsonObjects :
        (pc \in Terminal /\ KeySet \subseteq DOMAIN o.d /\ AllText(o) /\ RepliedWith(o)) =>
            /\ response.status = "200"
            /\ \A k \in KeySet : FeedbackOf(response, k) = o.d[k]

C6_Witness == pc = "Completed" /\ RepliedWith(GoodObj(KeySet))

\* C7: a JSON object with text values that lacks some of the four keys gives
\* "" for each missing key and the object's value for each present key, in a
\* 200 response.
C7_MissingKeysBlank ==
    \A o \in JsonObjects :
        (pc \in Terminal /\ ~(KeySet \subseteq DOMAIN o.d) /\ AllText(o) /\ RepliedWith(o)) =>
            /\ response.status = "200"
            /\ \A k \in KeySet :
                 FeedbackOf(response, k) = IF k \in DOMAIN o.d THEN o.d[k] ELSE PyStr("")

C7_Witness == pc = "Completed" /\ RepliedWith(GoodObj({"summary", "weaknesses"}))

\* C8: the handler moves through Received, Validated, (Normalized and) Scored,
\* PromptBuilt, AwaitingFeedback, FeedbackAccepted or FeedbackFallback,
\* Completed, never backwards; the collaborator is called once per non-empty
\* request, and only with scoring finished and the prompts built.
Successors(p) ==
    CASE p = "Idle" -> {"Received"}
      [] p = "Received" -> {"Validated", "Rejected"}
      [] p = "Validated" -> {"Scored"}
      [] p = "Scored" -> {"PromptBuilt"}
      [] p = "PromptBuilt" -> {"AwaitingFeedback"}
      [] p = "AwaitingFeedback" -> {"FeedbackAccepted", "FeedbackFallback"}
      [] p \in {"FeedbackAccepted", "FeedbackFallback"} -> {"Completed", "Crashed"}
      [] OTHER -> {"Idle"}

AfterCall == {"AwaitingFeedback", "FeedbackAccepted", "FeedbackFallback", "Completed", "Crashed"}

OrderStep ==
    /\ pc' # pc => pc' \in Successors(pc)
    /\ calls' # calls =>
         \/ /\ calls' = calls + 1
            /\ pc = "PromptBuilt"
            /\ pc' = "AwaitingFeedback"
            /\ idx > Len(payload)
            /\ Len(rows_for_llm) = Len(payload)
            /\ total = Len(payload)
            /\ system_prompt # ""
            /\ user_prompt # ""
         \/ pc' = "Idle" /\ calls' = 0

C8_OneRun ==
    /\ [][OrderStep]_vars
    /\ [](calls = IF pc \in AfterCall THEN 1 ELSE 0)
    /\ []((pc \in {"Rejected", "Crashed"}) => response.status \in {"400", "500"})

C8_Witness == pc = "Completed" /\ calls = 1 /\ reply.kind = "raise"

\* C9: a request waiting for the collaborator always gets out of
\* AwaitingFeedback and ends with a response.
C9_Terminates == (pc = "AwaitingFeedback") ~> (pc \in Terminal)

\* C10: a request with the same answer sequence as an earlier request gets
\* the same system and user prompt as that request, whatever was served or
\* answered in between.
PromptsBuilt == pc \in {"PromptBuilt"} \cup AfterCall

C10_PromptDeterminism ==
    (seen # None /\ PromptsBuilt /\ seen.answers = payload) =>
        /\ system_prompt = seen.system_prompt
        /\ user_prompt = seen.user_prompt

C10_Witness ==
    /\ seen # None
    /\ pc = "PromptBuilt"
    /\ Len(payload) = 2
    /\ seen.answers = payload
    /\ payload[1] # payload[2]

====
